---- MODULE Spec2Model ----
(***************************************************************************)
(* Model of the generic-server-error crate: the error types generated by   *)
(* the define_*_error macros (src/src/macros.rs), the ServerErrorTrait     *)
(* accessors and the shared Display rendering (src/src/server_error.rs),   *)
(* and the GenericServerErrorTrait conversion (src/src/lib.rs).            *)
(*                                                                         *)
(* A string is a sequence of tokens.  A token is either one of the special *)
(* characters QUOTE, BSLASH, NL, or a chunk of ordinary text that holds    *)
(* none of them.  Concatenation is \o; formatting, escaping and rendering  *)
(* are computed token by token, as the Rust formatting machinery does      *)
(* character by character.                                                 *)
(***************************************************************************)
EXTENDS Integers, Sequences, FiniteSets, TLC

VARIABLES
    stack,      \* the running program's call stack, outermost frame first
    colorize,   \* colored's SHOULD_COLORIZE, read once from the environment
    err,        \* the live ServerError box (Box<dyn ServerErrorTrait>) or NoErr
    made,       \* ghost: the constructor call that built err and the value it returned
    holder,     \* which owner currently holds the box
    ret,        \* the value returned by the last accessor call
    out,        \* the text produced by the last Display rendering of err
    firstOut,   \* ghost: the text produced by the first rendering of err
    obs,        \* ghost: behaviour()/tag() results seen on instances of one type
    gerr,       \* the live GenericServerError box or NoErr
    gstd,       \* the Box<dyn Error + Send + Sync> made by into_std_error
    gpre,       \* the Display and Debug output of gerr before the conversion
    gpost,      \* the Display and Debug output of gstd after the conversion
    gshown      \* ghost: should_be_shown_to_client() results seen on one type

vars == <<stack, colorize, err, made, holder, ret, out, firstOut, obs,
          gerr, gstd, gpre, gpost, gshown>>

serverVars == <<stack, err, made, holder, ret, out, firstOut, obs>>
genericVars == <<gerr, gstd, gpre, gpost, gshown>>

----------------------------------------------------------------------------
(* Bounds of the model. *)

\* deepest call stack explored
MaxDepth == 2
\* number of distinct child texts given to TestErrorType
NumTexts == 3

----------------------------------------------------------------------------
(* Strings and the formatting primitives of core::fmt. *)

QUOTE == "\""
BSLASH == "\\"
NL == "\n"

\* no box is live
NoErr == [none |-> TRUE]
\* Option<String>
None == [some |-> FALSE]
Some(s) == [some |-> TRUE, val |-> s]

\* s holds t as a contiguous substring (str::contains)
Contains(s, t) ==
    \E i \in 0..(Len(s) - Len(t)) : SubSeq(s, i + 1, i + Len(t)) = t

\* s begins with t (str::starts_with)
StartsWith(s, t) == Len(t) <= Len(s) /\ SubSeq(s, 1, Len(t)) = t

Digit(d) == CASE d = 0 -> "0" [] d = 1 -> "1" [] d = 2 -> "2" [] d = 3 -> "3"
              [] d = 4 -> "4" [] d = 5 -> "5" [] d = 6 -> "6" [] d = 7 -> "7"
              [] d = 8 -> "8" [] d = 9 -> "9"

RECURSIVE Digits(_)
\* the decimal digits of a natural number, most significant first
Digits(n) == IF n < 10 THEN <<Digit(n)>> ELSE Digits(n \div 10) \o <<Digit(n % 10)>>

\* Display for the integer types
DisplayInt(n) == IF n < 0 THEN <<"-">> \o Digits(-n) ELSE Digits(n)

\* char::escape_debug as <str as Debug>::fmt applies it
EscapeChar(c) == CASE c = QUOTE -> <<BSLASH, QUOTE>>
                   [] c = BSLASH -> <<BSLASH, BSLASH>>
                   [] c = NL -> <<BSLASH, "n">>
                   [] OTHER -> <<c>>

RECURSIVE EscapeDebug(_)
EscapeDebug(s) == IF s = <<>> THEN <<>> ELSE EscapeChar(Head(s)) \o EscapeDebug(Tail(s))

\* <str as Debug>::fmt: the text in double quotes, escaped
DebugStr(s) == <<QUOTE>> \o EscapeDebug(s) \o <<QUOTE>>

\* A value handed to a constructor: an integer or a string.
IntVal(n) == [k |-> "int", v |-> n]
StrVal(s) == [k |-> "str", v |-> s]

\* format!("{}", v)
DisplayFmt(v) == IF v.k = "int" THEN DisplayInt(v.v) ELSE v.v

\* format!("{:?}", v)
DebugFmt(v) == IF v.k = "int" THEN DisplayInt(v.v) ELSE DebugStr(v.v)

\* A message template: literal pieces and named placeholders.
Lit(s) == [lit |-> s]
Arg(a) == [arg |-> a]

RECURSIVE format(_, _)
\* format!($msg, $($arg = $arg),*): every placeholder replaced by the Display
\* form of the argument of that name
format(msg, args) ==
    IF msg = <<>> THEN <<>>
    ELSE (IF "lit" \in DOMAIN Head(msg) THEN <<Head(msg).lit>>
          ELSE DisplayFmt(args[Head(msg).arg]))
         \o format(Tail(msg), args)

----------------------------------------------------------------------------
(* The error types declared with the macros: the declarations of the tests *)
(* of server_error.rs.                                                     *)

Macros == {"internal", "critical", "client", "sensitive", "user", "temporary"}

Decl(t) ==
    CASE t = "InternalError" ->
           [name |-> "InternalError", macro |-> "internal",
            msg |-> <<Lit("An internal error occurred.")>>]
      [] t = "InternalError(critical)" ->
           [name |-> "InternalError", macro |-> "critical",
            msg |-> <<Lit("A critical error occurred.")>>]
      [] t = "ClientError" ->
           [name |-> "ClientError", macro |-> "client",
            msg |-> <<Lit("A client error occurred: "), Arg("code"), Lit(".")>>]
      [] t = "SensitiveError" ->
           [name |-> "SensitiveError", macro |-> "sensitive",
            msg |-> <<Lit("Sensitive data error: "), Arg("details"),
                      Lit(" for user "), Arg("user"), Lit(".")>>]
      [] t = "UserError" ->
           [name |-> "UserError", macro |-> "user",
            msg |-> <<Lit("User error occurred.")>>]
      [] t = "TemporaryError" ->
           [name |-> "TemporaryError", macro |-> "temporary",
            msg |-> <<Lit("Temporary issue: "), Arg("reason"),
                      Lit(", retry after "), Arg("seconds"),
                      Lit(" seconds by "), Arg("method"), Lit(".")>>]

Types == {"InternalError", "InternalError(critical)", "ClientError",
          "SensitiveError", "UserError", "TemporaryError"}

\* The field tuples a caller supplies, by type.
FieldChoices(t) ==
    CASE t = "ClientError" ->
           {[code |-> IntVal(404)], [code |-> IntVal(-7)]}
      [] t = "SensitiveError" ->
           {[details |-> StrVal(<<"leak detected">>), user |-> StrVal(<<"user123">>)],
            [details |-> StrVal(<<"bad ", QUOTE, "token", QUOTE>>),
             user |-> StrVal(<<"root">>)]}
      [] t = "TemporaryError" ->
           {[reason |-> StrVal(<<"network outage">>), seconds |-> IntVal(30),
             method |-> StrVal(<<"reconnect">>)]}
      [] OTHER -> {<<>>}

\* The values a caller passes as the debug argument of with_debug.
DebugChoices == {StrVal(<<"debug info">>), IntVal(42)}

----------------------------------------------------------------------------
(* The running program: a chain of calls, each function with the source    *)
(* position at which it calls an error constructor.                        *)

FrameName(d) == CASE d = 1 -> "main" [] d = 2 -> "handle_request"
                  [] d = 3 -> "validate" [] OTHER -> "helper"

\* the position in the caller's source of its constructor call
CallSite(f) ==
    CASE f = "main" -> [file |-> <<"src/main.rs">>, line |-> 12]
      [] f = "handle_request" -> [file |-> <<"src/api.rs">>, line |-> 204]
      [] f = "validate" -> [file |-> <<"src/validate.rs">>, line |-> 7]
      [] OTHER -> [file |-> <<"src/util.rs">>, line |-> 1000]

\* the position of the Location::caller() expression in the macro body
GeneratorSite == [file |-> <<"src/macros.rs">>, line |-> 129]

Holders == {"caller", "handler"}

----------------------------------------------------------------------------
(* Context capture. *)

RECURSIVE Reverse(_)
Reverse(s) == IF s = <<>> THEN <<>> ELSE Reverse(Tail(s)) \o <<Head(s)>>

RECURSIVE FramesToString(_, _)
\* <Backtrace as Display>::fmt: one numbered line per frame, innermost first
FramesToString(frames, i) ==
    IF frames = <<>> THEN <<>>
    ELSE <<"  ">> \o Digits(i) \o <<": ">> \o Head(frames) \o <<NL>>
         \o FramesToString(Tail(frames), i + 1)

\* the frame of a generated constructor
CtorFrame(t, ctor) == <<Decl(t).name, "::", ctor>>

\* the frames live while constructor ctor of type t runs, called with stack stk
LiveFrames(t, ctor, stk) ==
    <<CtorFrame(t, ctor)>> \o Reverse([i \in 1..Len(stk) |-> <<stk[i]>>])

\* std::backtrace::Backtrace::force_capture().to_string(), evaluated in the
\* constructor body
force_capture(t, ctor, stk) == FramesToString(LiveFrames(t, ctor, stk), 0)

\* what Location::caller() yields in a function without #[track_caller]: the
\* position of the expression itself
Location_here(site) == GeneratorSite

\* std::panic::Location::caller() in a #[track_caller] constructor: the
\* position of the constructor call
Location_caller(site) == site

\* format!("{}; {};", location.file(), location.line())
LocationContext(location) ==
    location.file \o <<"; ">> \o DisplayInt(location.line) \o <<";">>

\* "OMITTED".to_string()
OmittedContext == <<"OMITTED">>

----------------------------------------------------------------------------
(* The generated constructors.  t is the declared type, args the field     *)
(* values, d the debug argument, site the position of the call and stk the *)
(* call stack at the call.                                                 *)

\* define_internal_error: $name::new
internal_new(t, args, site, stk) ==
    [type |-> t,
     context |-> force_capture(t, "new", stk),
     message |-> format(Decl(t).msg, args),
     debug |-> None]

\* define_internal_error: $name::with_debug
internal_with_debug(t, args, d, site, stk) ==
    [type |-> t,
     context |-> force_capture(t, "with_debug", stk),
     message |-> format(Decl(t).msg, args),
     debug |-> Some(DebugFmt(d))]

\* define_critical_error: $name::new
critical_new(t, args, site, stk) ==
    [type |-> t,
     context |-> force_capture(t, "new", stk),
     message |-> <<"CRITICAL; ">> \o format(Decl(t).msg, args),
     debug |-> None]

\* define_critical_error: $name::with_debug
critical_with_debug(t, args, d, site, stk) ==
    [type |-> t,
     context |-> force_capture(t, "with_debug", stk),
     message |-> <<"CRITICAL; ">> \o format(Decl(t).msg, args),
     debug |-> Some(DebugFmt(d))]

\* define_client_error: $name::new
client_new(t, args, site, stk) ==
    [type |-> t,
     context |-> LocationContext(Location_caller(site)),
     message |-> format(Decl(t).msg, args),
     debug |-> None]

\* with_debug of define_client_error, were it to leave the payload out
client_with_debug_dropping(t, args, d, site, stk) ==
    [type |-> t,
     context |-> LocationContext(Location_caller(site)),
     message |-> format(Decl(t).msg, args),
     debug |-> None]

\* define_client_error: $name::with_debug
client_with_debug(t, args, d, site, stk) ==
    [type |-> t,
     context |-> LocationContext(Location_caller(site)),
     message |-> format(Decl(t).msg, args),
     debug |-> Some(DebugFmt(d))]

\* define_sensitive_error: $name::new
sensitive_new(t, args, site, stk) ==
    [type |-> t,
     context |-> OmittedContext,
     message |-> format(Decl(t).msg, args),
     debug |-> None]

\* with_debug of define_sensitive_error, were it to capture the call position
\* as the client macro does
sensitive_with_debug_located(t, args, d, site, stk) ==
    [type |-> t,
     context |-> LocationContext(Location_caller(site)),
     message |-> format(Decl(t).msg, args),
     debug |-> Some(DebugFmt(d))]

\* define_sensitive_error: $name::with_debug
sensitive_with_debug(t, args, d, site, stk) ==
    [type |-> t,
     context |-> OmittedContext,
     message |-> format(Decl(t).msg, args),
     debug |-> Some(DebugFmt(d))]

\* define_user_error: $name::new
user_new(t, args, site, stk) ==
    [type |-> t,
     context |-> LocationContext(Location_caller(site)),
     message |-> format(Decl(t).msg, args),
     debug |-> None]

\* define_user_error: $name::with_debug
user_with_debug(t, args, d, site, stk) ==
    [type |-> t,
     context |-> LocationContext(Location_caller(site)),
     message |-> format(Decl(t).msg, args),
     debug |-> Some(DebugFmt(d))]

\* define_temporary_error: $name::new
temporary_new(t, args, site, stk) ==
    [type |-> t,
     context |-> LocationContext(Location_caller(site)),
     message |-> format(Decl(t).msg, args),
     debug |-> None]

\* define_temporary_error: $name::with_debug
temporary_with_debug(t, args, d, site, stk) ==
    [type |-> t,
     context |-> LocationContext(Location_caller(site)),
     message |-> format(Decl(t).msg, args),
     debug |-> Some(DebugFmt(d))]

\* $name::new of the macro that declared t
new(t, args, site, stk) ==
    CASE Decl(t).macro = "internal" -> internal_new(t, args, site, stk)
      [] Decl(t).macro = "critical" -> critical_new(t, args, site, stk)
      [] Decl(t).macro = "client" -> client_new(t, args, site, stk)
      [] Decl(t).macro = "sensitive" -> sensitive_new(t, args, site, stk)
      [] Decl(t).macro = "user" -> user_new(t, args, site, stk)
      [] Decl(t).macro = "temporary" -> temporary_new(t, args, site, stk)

\* $name::with_debug of the macro that declared t
with_debug(t, args, d, site, stk) ==
    CASE Decl(t).macro = "internal" -> internal_with_debug(t, args, d, site, stk)
      [] Decl(t).macro = "critical" -> critical_with_debug(t, args, d, site, stk)
      [] Decl(t).macro = "client" -> client_with_debug(t, args, d, site, stk)
      [] Decl(t).macro = "sensitive" -> sensitive_with_debug(t, args, d, site, stk)
      [] Decl(t).macro = "user" -> user_with_debug(t, args, d, site, stk)
      [] Decl(t).macro = "temporary" -> temporary_with_debug(t, args, d, site, stk)

----------------------------------------------------------------------------
(* ServerErrorTrait: the accessors. *)

ReturnInternalServerError == [b |-> "ReturnInternalServerError"]
ReturnUnauthorized == [b |-> "ReturnUnauthorized"]
LogWarningForwardToClient == [b |-> "LogWarningForwardToClient"]
LogErrorSendFixedMsgToClient(m) == [b |-> "LogErrorSendFixedMsgToClient", msg |-> m]

\* enum ServerErrorTag
TagNone == [tag |-> "None"]
Critical == [tag |-> "Critical"]

\* behaviour(), were it to look at the instance: the payload decides
behaviour_by_payload(e) ==
    IF e.debug.some THEN ReturnInternalServerError ELSE LogWarningForwardToClient

\* fn behaviour(&self), as each macro implements it
behaviour(e) ==
    CASE Decl(e.type).macro = "internal" -> ReturnInternalServerError
      [] Decl(e.type).macro = "critical" -> ReturnInternalServerError
      [] Decl(e.type).macro = "client" -> LogErrorSendFixedMsgToClient("CLIENT_ERROR_MSG")
      [] Decl(e.type).macro = "sensitive" ->
             LogErrorSendFixedMsgToClient("SENSITIVE_ERROR_MSG")
      [] Decl(e.type).macro = "user" -> LogWarningForwardToClient
      [] Decl(e.type).macro = "temporary" -> LogWarningForwardToClient

\* fn tag(&self): the tag given at declaration; Critical for the types of
\* define_critical_error, None for the others
tag(e) == IF Decl(e.type).macro = "critical" THEN Critical ELSE TagNone

\* fn context(&self) -> &String
context(e) == e.context

\* fn message(&self) -> &String
message(e) == e.message

\* fn debug(&self) -> Option<&String>
debug(e) == e.debug

----------------------------------------------------------------------------
(* Display Composition. *)

\* <Option<String> as Debug>::fmt under {:#?}, at one level of indentation
PrettyOption(o) ==
    IF o.some
    THEN <<"Some(", NL, "        ">> \o DebugStr(o.val) \o <<",", NL, "    )">>
    ELSE <<"None">>

\* #[derive(Debug)] on the generated struct, under {:#?}
DebugStruct(e) ==
    <<Decl(e.type).name, " {", NL>>
    \o <<"    context: ">> \o DebugStr(e.context) \o <<",", NL>>
    \o <<"    message: ">> \o DebugStr(e.message) \o <<",", NL>>
    \o <<"    debug: ">> \o PrettyOption(e.debug) \o <<",", NL>>
    \o <<"}">>

\* colored: s.bold(), written out
Bold(s) == IF colorize THEN <<"ESC[1m">> \o s \o <<"ESC[0m">> ELSE s

\* colored: s.bold().red(), written out
BoldRed(s) == IF colorize THEN <<"ESC[1;31m">> \o s \o <<"ESC[0m">> ELSE s

\* "CRITICAL".bold().red()
Marker == BoldRed(<<"CRITICAL">>)

\* impl Display for dyn ServerErrorTrait, were it to write the message alone
fmt_message_only(e) ==
    (IF tag(e) = Critical THEN Marker ELSE <<>>) \o Bold(message(e))

\* impl Display for dyn ServerErrorTrait, with the tag's arm left out
fmt_untagged(e) == Bold(message(e)) \o <<NL>> \o DebugStruct(e)

\* impl Display for dyn ServerErrorTrait
fmt(e) ==
    (IF tag(e) = Critical THEN Marker ELSE <<>>)
    \o Bold(message(e)) \o <<NL>> \o DebugStruct(e)

----------------------------------------------------------------------------
(* The state machine of the ServerErrorTrait lineage.  The model follows   *)
(* one box at a time, from its construction to its drop.                   *)

NoRet == [op |-> "none"]
NoOut == [rendered |-> FALSE]
Out(s) == [rendered |-> TRUE, text |-> s]
\* a rendering, marked as the first of the value or a later one
OutAgain(s, again) == [rendered |-> TRUE, text |-> s, again |-> again]
NoObs == [type |-> "none", seen |-> {}]

\* the function running now
Top == stack[Len(stack)]

\* the results seen so far on instances of type t
ObsFor(t) == IF obs.type = t THEN obs ELSE [type |-> t, seen |-> {}]

\* the results seen so far on instances of type t, with one more
Observe(t, ctor, op, val) ==
    [type |-> t,
     seen |-> ObsFor(t).seen \cup {[ctor |-> ctor, op |-> op, val |-> val]}]

Init ==
    /\ stack = <<FrameName(1)>>
    /\ colorize \in BOOLEAN
    /\ err = NoErr
    /\ made = NoErr
    /\ holder = "caller"
    /\ ret = NoRet
    /\ out = NoOut
    /\ firstOut = NoOut
    /\ obs = NoObs
    /\ gerr = NoErr
    /\ gstd = NoErr
    /\ gpre = [disp |-> NoOut, dbg |-> NoOut]
    /\ gpost = [disp |-> NoOut, dbg |-> NoOut]
    /\ gshown = NoObs

\* the running function calls the next one
Call ==
    /\ Len(stack) < MaxDepth
    /\ stack' = Append(stack, FrameName(Len(stack) + 1))
    /\ UNCHANGED <<colorize, err, made, holder, ret, out, firstOut, obs>>
    /\ UNCHANGED genericVars

\* the running function returns
Return ==
    /\ Len(stack) > 1
    /\ stack' = SubSeq(stack, 1, Len(stack) - 1)
    /\ UNCHANGED <<colorize, err, made, holder, ret, out, firstOut, obs>>
    /\ UNCHANGED genericVars

\* the running function calls $name::new(args)
New ==
    /\ err = NoErr
    /\ \E t \in Types : \E args \in FieldChoices(t) :
         /\ err' = new(t, args, CallSite(Top), stack)
         /\ made' = [ctor |-> "new", type |-> t, args |-> args,
                     site |-> CallSite(Top), stack |-> stack, built |-> err']
         /\ obs' = ObsFor(t)
    /\ holder' = "caller"
    /\ ret' = NoRet
    /\ out' = NoOut
    /\ firstOut' = NoOut
    /\ UNCHANGED <<stack, colorize>>
    /\ UNCHANGED genericVars

\* the running function calls $name::with_debug(args, &d)
WithDebug ==
    /\ err = NoErr
    /\ \E t \in Types : \E args \in FieldChoices(t) : \E d \in DebugChoices :
         /\ err' = with_debug(t, args, d, CallSite(Top), stack)
         /\ made' = [ctor |-> "with_debug", type |-> t, args |-> args, d |-> d,
                     site |-> CallSite(Top), stack |-> stack, built |-> err']
         /\ obs' = ObsFor(t)
    /\ holder' = "caller"
    /\ ret' = NoRet
    /\ out' = NoOut
    /\ firstOut' = NoOut
    /\ UNCHANGED <<stack, colorize>>
    /\ UNCHANGED genericVars

\* error.behaviour()
Behaviour ==
    /\ err # NoErr
    /\ ret' = [op |-> "behaviour", val |-> behaviour(err)]
    /\ obs' = Observe(err.type, made.ctor, "behaviour", behaviour(err))
    /\ UNCHANGED <<stack, colorize, err, made, holder, out, firstOut>>
    /\ UNCHANGED genericVars

\* error.tag()
Tag ==
    /\ err # NoErr
    /\ ret' = [op |-> "tag", val |-> tag(err)]
    /\ obs' = Observe(err.type, made.ctor, "tag", tag(err))
    /\ UNCHANGED <<stack, colorize, err, made, holder, out, firstOut>>
    /\ UNCHANGED genericVars

\* error.context()
Context ==
    /\ err # NoErr
    /\ ret' = [op |-> "context", val |-> context(err)]
    /\ UNCHANGED <<stack, colorize, err, made, holder, out, firstOut, obs>>
    /\ UNCHANGED genericVars

\* error.message()
Message ==
    /\ err # NoErr
    /\ ret' = [op |-> "message", val |-> message(err)]
    /\ UNCHANGED <<stack, colorize, err, made, holder, out, firstOut, obs>>
    /\ UNCHANGED genericVars

\* error.debug(), were it to take the payload out of the value
DebugTaking ==
    /\ err # NoErr
    /\ ret' = [op |-> "debug", val |-> debug(err)]
    /\ err' = [err EXCEPT !.debug = None]
    /\ UNCHANGED <<stack, colorize, made, holder, out, firstOut, obs>>
    /\ UNCHANGED genericVars

\* error.debug()
Debug ==
    /\ err # NoErr
    /\ ret' = [op |-> "debug", val |-> debug(err)]
    /\ UNCHANGED <<stack, colorize, err, made, holder, out, firstOut, obs>>
    /\ UNCHANGED genericVars

\* format!("{}", error)
Render ==
    /\ err # NoErr
    /\ out' = OutAgain(fmt(err), firstOut # NoOut)
    /\ firstOut' = IF firstOut = NoOut THEN Out(fmt(err)) ELSE firstOut
    /\ UNCHANGED <<stack, colorize, err, made, holder, ret, obs>>
    /\ UNCHANGED genericVars

\* the box is handed to another owner; borrows of its fields have ended
Move ==
    /\ err # NoErr
    /\ \E h \in Holders \ {holder} : holder' = h
    /\ ret' = NoRet
    /\ UNCHANGED <<stack, colorize, err, made, out, firstOut, obs>>
    /\ UNCHANGED genericVars

\* the last holder drops the box
Drop ==
    /\ err # NoErr
    /\ err' = NoErr
    /\ made' = NoErr
    /\ holder' = "caller"
    /\ ret' = NoRet
    /\ out' = NoOut
    /\ firstOut' = NoOut
    /\ UNCHANGED <<stack, colorize, obs>>
    /\ UNCHANGED genericVars

Next ==
    \/ Call \/ Return
    \/ New \/ WithDebug
    \/ Behaviour \/ Tag \/ Context \/ Message \/ Debug
    \/ Render \/ Move \/ Drop

Spec == Init /\ [][Next]_vars

----------------------------------------------------------------------------
(* The GenericServerErrorTrait lineage: the implementing type of lib.rs.   *)

\* the child texts given to TestErrorType
Text(i) == CASE i = 1 -> <<"abc">>
             [] i = 2 -> <<>>
             [] i = 3 -> <<"a ", QUOTE, "b", QUOTE, BSLASH>>
             [] OTHER -> <<"child ">> \o Digits(i)

\* TestErrorType(text)
TestErrorType(text) == [type |-> "TestErrorType", text |-> text]

\* <Box<T> as Display>::fmt forwards to the boxed value: impl Display for
\* TestErrorType, and <String as Display> for an error made from a string
display(e) ==
    IF e.type = "TestErrorType"
    THEN <<"Example error message with child text: ">> \o e.text \o <<".">>
    ELSE e.text

\* <Box<T> as Debug>::fmt forwards to the boxed value: #[derive(Debug)] on
\* the tuple struct TestErrorType, and <str as Debug> for an error made from
\* a string
debug_fmt(e) ==
    IF e.type = "TestErrorType"
    THEN <<"TestErrorType(">> \o DebugStr(e.text) \o <<")">>
    ELSE DebugStr(e.text)

\* a conversion through the rendered text: self.to_string().into()
into_string_error(e) == [type |-> "String", text |-> display(e)]

\* fn into_std_error(self: Box<Self>): the box itself, as a dyn Error
into_std_error(e) == e

\* Box::new(TestErrorType(text))
GNew ==
    /\ gerr = NoErr
    /\ gstd = NoErr
    /\ \E i \in 1..NumTexts : gerr' = TestErrorType(Text(i))
    /\ gpre' = [disp |-> NoOut, dbg |-> NoOut]
    /\ gpost' = [disp |-> NoOut, dbg |-> NoOut]
    /\ UNCHANGED gstd
    /\ UNCHANGED <<colorize, serverVars, gshown>>

\* format!("{}", _error)
GDisplay ==
    /\ gerr # NoErr
    /\ gpre' = [gpre EXCEPT !.disp = Out(display(gerr))]
    /\ UNCHANGED <<gerr, gstd, gpost>>
    /\ UNCHANGED <<colorize, serverVars, gshown>>

\* format!("{:?}", _error)
GDebug ==
    /\ gerr # NoErr
    /\ gpre' = [gpre EXCEPT !.dbg = Out(debug_fmt(gerr))]
    /\ UNCHANGED <<gerr, gstd, gpost>>
    /\ UNCHANGED <<colorize, serverVars, gshown>>

\* _error.into_std_error(): the generic box is consumed
IntoStd ==
    /\ gerr # NoErr
    /\ gstd' = into_std_error(gerr)
    /\ gerr' = NoErr
    /\ UNCHANGED <<gpre, gpost>>
    /\ UNCHANGED <<colorize, serverVars, gshown>>

\* format!("{}", _as_std_error)
StdDisplay ==
    /\ gstd # NoErr
    /\ gpost' = [gpost EXCEPT !.disp = Out(display(gstd))]
    /\ UNCHANGED <<gerr, gstd, gpre>>
    /\ UNCHANGED <<colorize, serverVars, gshown>>

\* format!("{:?}", _as_std_error)
StdDebug ==
    /\ gstd # NoErr
    /\ gpost' = [gpost EXCEPT !.dbg = Out(debug_fmt(gstd))]
    /\ UNCHANGED <<gerr, gstd, gpre>>
    /\ UNCHANGED <<colorize, serverVars, gshown>>

\* the box, generic or standard, is dropped
GDrop ==
    /\ gerr # NoErr \/ gstd # NoErr
    /\ gerr' = NoErr
    /\ gstd' = NoErr
    /\ gpre' = [disp |-> NoOut, dbg |-> NoOut]
    /\ gpost' = [disp |-> NoOut, dbg |-> NoOut]
    /\ UNCHANGED <<colorize, serverVars, gshown>>

NextGeneric ==
    \/ GNew \/ GDisplay \/ GDebug \/ IntoStd \/ StdDisplay \/ StdDebug \/ GDrop

SpecGeneric == Init /\ [][NextGeneric]_vars

----------------------------------------------------------------------------
(* The GenericServerErrorTrait lineage: the declared shapes.  The macros   *)
(* that generate them are not among the sources; the types, their fields   *)
(* and should_be_shown_to_client() follow the specification.               *)

Shapes == {"user_visible", "user_visible_with_info", "internal"}

\* the declarations: CriticalError of common.rs and one type of each shape
GenericDecl(t) ==
    CASE t = "CriticalError" ->
           [shape |-> "internal", msg |-> <<Lit("CRITICAL")>>]
      [] t = "InternalError" ->
           [shape |-> "internal", msg |-> <<Lit("Internal error.")>>]
      [] t = "UserVisibleError" ->
           [shape |-> "user_visible", msg |-> <<Lit("User-visible error.")>>]
      [] t = "UserVisibleInfoError" ->
           [shape |-> "user_visible_with_info",
            msg |-> <<Lit("User-visible error: "), Arg("user_visible_info"),
                      Lit(".")>>]

GenericTypes == {"CriticalError", "InternalError", "UserVisibleError",
                 "UserVisibleInfoError"}

\* the context, message and debug strings a caller hands to new
GenericStrings == {<<"cxt">>, <<"msg">>, <<"a ", QUOTE, "b", QUOTE>>}

\* $name::new(context, message, debug)
generic_new(t, c, m, d) ==
    [type |-> t, context |-> c, message |-> m, debug |-> d]

\* $name::default(): every field empty
generic_default(t) ==
    [type |-> t, context |-> <<>>, message |-> <<>>, debug |-> <<>>]

\* should_be_shown_to_client(), were the answer of the user-visible shapes
\* given by every shape
shown_for_every_shape(e) == TRUE

\* fn should_be_shown_to_client(&self) of a declared shape: true for the two
\* user-visible shapes, false for the internal one
shape_should_be_shown_to_client(e) == GenericDecl(e.type).shape # "internal"

\* impl GenericServerErrorTrait for TestErrorType: should_be_shown_to_client
test_should_be_shown_to_client(e) == TRUE

\* e.should_be_shown_to_client(), dispatched on the boxed type
should_be_shown_to_client(e) ==
    IF e.type = "TestErrorType"
    THEN test_should_be_shown_to_client(e)
    ELSE shape_should_be_shown_to_client(e)

\* the answers seen so far on instances of type t
ShownFor(t) == IF gshown.type = t THEN gshown ELSE [type |-> t, seen |-> {}]

\* $name::new(context, message, debug), boxed as a GenericServerError
ShapeNew ==
    /\ gerr = NoErr
    /\ gstd = NoErr
    /\ \E t \in GenericTypes : \E c, m, d \in GenericStrings :
         /\ gerr' = [ctor |-> "new"] @@ generic_new(t, c, m, d)
         /\ gshown' = ShownFor(t)
    /\ UNCHANGED <<gstd, gpre, gpost>>
    /\ UNCHANGED <<colorize, serverVars>>

\* $name::default(), boxed as a GenericServerError
ShapeDefault ==
    /\ gerr = NoErr
    /\ gstd = NoErr
    /\ \E t \in GenericTypes :
         /\ gerr' = [ctor |-> "default"] @@ generic_default(t)
         /\ gshown' = ShownFor(t)
    /\ UNCHANGED <<gstd, gpre, gpost>>
    /\ UNCHANGED <<colorize, serverVars>>

\* error.should_be_shown_to_client()
ShownToClient ==
    /\ gerr # NoErr
    /\ gshown' = [type |-> gerr.type,
                  seen |-> ShownFor(gerr.type).seen
                           \cup {[ctor |-> gerr.ctor, filled |-> gerr.message # <<>>,
                                  val |-> should_be_shown_to_client(gerr)]}]
    /\ UNCHANGED <<gerr, gstd, gpre, gpost>>
    /\ UNCHANGED <<colorize, serverVars>>

\* the box is dropped
ShapeDrop ==
    /\ gerr # NoErr
    /\ gerr' = NoErr
    /\ UNCHANGED <<gstd, gpre, gpost, gshown>>
    /\ UNCHANGED <<colorize, serverVars>>

NextShapes == ShapeNew \/ ShapeDefault \/ ShownToClient \/ ShapeDrop

SpecShapes == Init /\ [][NextShapes]_vars

----------------------------------------------------------------------------
(* The claims. *)

\* s ends with t (str::ends_with)
EndsWith(s, t) == Len(t) <= Len(s) /\ SubSeq(s, Len(s) - Len(t) + 1, Len(s)) = t

MacroOf(e) == Decl(e.type).macro

\* C1: message() of the value returned by new(fields) and by
\* with_debug(fields, d) equals the message template with every placeholder
\* replaced by the supplied field value, nothing before it and nothing after
\* it, for the types of every define_*_error macro.
MessageIsSubstitutedTemplate ==
    ret.op = "message" => ret.val = format(Decl(made.type).msg, made.args)

\* C2: debug() is None on the value returned by new(fields); on the value
\* returned by with_debug(fields, d) it is Some of the {:?} form of d.
DebugAbsentOrRendered ==
    ret.op = "debug" =>
        /\ made.ctor = "new" => ret.val = None
        /\ made.ctor = "with_debug" =>
               /\ ret.val.some
               /\ ret.val.val = DebugFmt(made.d)

\* a value built by with_debug with a string payload has answered debug()
DebugReadAfterWithDebug ==
    /\ ret.op = "debug"
    /\ made.ctor = "with_debug"
    /\ made.d = StrVal(<<"debug info">>)

\* C3: behaviour() and tag() answer the same on every instance of a type,
\* whichever constructor built it and whatever fields and payload it holds;
\* on the types of define_critical_error they answer
\* ReturnInternalServerError and Critical, and tag() answers None on the
\* types of every other macro.
BehaviourAndTagFixedPerType ==
    /\ \A a, b \in obs.seen : a.op = b.op => a.val = b.val
    /\ \A a \in obs.seen :
         /\ (Decl(obs.type).macro = "critical" /\ a.op = "behaviour")
                => a.val = ReturnInternalServerError
         /\ a.op = "tag" =>
                a.val = (IF Decl(obs.type).macro = "critical"
                         THEN Critical ELSE TagNone)

\* both constructors' instances of a critical type have answered behaviour()
\* and tag()
CriticalSeenFromBothConstructors ==
    /\ obs.type = "InternalError(critical)"
    /\ \A c \in {"new", "with_debug"} : \A o \in {"behaviour", "tag"} :
         \E a \in obs.seen : a.ctor = c /\ a.op = o

\* C4: every value of a define_sensitive_error type, built by either
\* constructor with any fields, has behaviour() == ReturnUnauthorized and
\* tag() == None.
SensitiveReturnsUnauthorized ==
    (err # NoErr /\ MacroOf(err) = "sensitive") =>
        /\ ret.op = "behaviour" => ret.val = ReturnUnauthorized
        /\ ret.op = "tag" => ret.val = TagNone

\* C5: on a type with the Omit policy (define_sensitive_error) context() is
\* the literal "OMITTED" on the value of new and on the value of with_debug,
\* whatever the fields and the payload.
OmitContextIsLiteral ==
    (ret.op = "context" /\ MacroOf(err) = "sensitive") => ret.val = <<"OMITTED">>

\* a sensitive value built by with_debug below main has answered context()
OmitContextReadAfterWithDebug ==
    /\ ret.op = "context"
    /\ MacroOf(err) = "sensitive"
    /\ made.ctor = "with_debug"
    /\ Len(made.stack) > 1

LocationMacros == {"client", "user", "temporary"}
BacktraceMacros == {"internal", "critical"}

\* C6: on a Location type (client, user, temporary) context() is non-empty
\* and carries the file and the line of the constructor call, not those of
\* the macro body; on a Backtrace type (internal, critical) context() is the
\* rendering of the frames live at the constructor call, whatever the stack
\* has become since.
ContextIsCapturedAtCall ==
    ret.op = "context" =>
        /\ MacroOf(err) \in LocationMacros =>
               /\ ret.val # <<>>
               /\ ret.val = made.site.file \o <<"; ">>
                            \o DisplayInt(made.site.line) \o <<";">>
               /\ made.site = CallSite(made.stack[Len(made.stack)])
               /\ ~Contains(ret.val, GeneratorSite.file)
        /\ MacroOf(err) \in BacktraceMacros =>
               /\ ret.val # <<>>
               /\ ret.val = FramesToString(
                                <<CtorFrame(made.type, made.ctor)>>
                                \o Reverse([i \in 1..Len(made.stack) |->
                                               <<made.stack[i]>>]), 0)

\* a client value built in handle_request answers context() after the
\* function has returned
LocationContextReadAfterReturn ==
    /\ ret.op = "context"
    /\ MacroOf(err) = "client"
    /\ made.stack = <<"main", "handle_request">>
    /\ stack = <<"main">>

\* C7: Display writes the CRITICAL marker exactly when tag() == Critical: the
\* rendering of a Critical-tagged value is the marker, then the message
\* (written through .bold()), a newline and the structural dump, and the
\* rendering of a None-tagged value is the message, the newline and the dump
\* with nothing before them (under colours it cannot begin as the marker
\* does); the tag changes nothing else: internal and critical types answer
\* behaviour() alike.
MarkerExactlyWhenCritical ==
    /\ out.rendered =>
         /\ tag(err) \in {Critical, TagNone}
         /\ tag(err) = Critical =>
                /\ out.text = Marker \o Bold(message(err)) \o <<NL>> \o DebugStruct(err)
                /\ StartsWith(out.text, Marker)
         /\ tag(err) = TagNone =>
                /\ out.text = Bold(message(err)) \o <<NL>> \o DebugStruct(err)
                /\ colorize => ~StartsWith(out.text, Marker)
    /\ (ret.op = "behaviour" /\ MacroOf(err) \in {"internal", "critical"})
           => ret.val = ReturnInternalServerError

\* a Critical-tagged value has been rendered and has answered behaviour()
CriticalRendered ==
    /\ out.rendered
    /\ tag(err) = Critical
    /\ ret.op = "behaviour"

\* the characters <str as Debug> escapes do not occur in s
NothingToEscape(s) == \A i \in 1..Len(s) : s[i] \notin {QUOTE, BSLASH, NL}

\* the dump of a value without payload ends with the field debug: None
DumpEndsWithoutPayload(text) ==
    EndsWith(text, <<"    debug: ", "None", ",", NL, "}">>)

\* C8 as stated: the rendering contains message() in full; the rendering of
\* a value built by with_debug(fields, d) contains the rendered d; the
\* rendering of a value built by new(fields) holds no payload.
RenderingContainsRenderedPayload ==
    out.rendered =>
        /\ Contains(out.text, message(err))
        /\ made.ctor = "with_debug" => Contains(out.text, DebugFmt(made.d))
        /\ made.ctor = "new" => DumpEndsWithoutPayload(out.text)

\* C8 as amended: the rendering contains message() in full; the rendering of
\* a value built by with_debug(fields, d) contains the rendered d as the dump
\* prints that string, quoted and with its quotes, backslashes and newlines
\* escaped, and so contains the rendered d itself when it has none of these;
\* the rendering of a value built by new(fields) ends with debug: None.
RenderingContainsEscapedPayload ==
    out.rendered =>
        /\ Contains(out.text, message(err))
        /\ made.ctor = "with_debug" =>
               /\ Contains(out.text,
                           <<"Some(", NL, "        ", QUOTE>>
                           \o EscapeDebug(DebugFmt(made.d))
                           \o <<QUOTE, ",", NL, "    )">>)
               /\ NothingToEscape(DebugFmt(made.d))
                      => Contains(out.text, DebugFmt(made.d))
        /\ made.ctor = "new" => DumpEndsWithoutPayload(out.text)

\* a value built by with_debug with a string payload has been rendered
RenderedWithStringPayload ==
    /\ out.rendered
    /\ made.ctor = "with_debug"
    /\ made.d = StrVal(<<"debug info">>)
    /\ ~NothingToEscape(DebugFmt(made.d))

\* C9: a live value is the value its constructor returned, whatever accessor
\* calls, renderings and moves have happened since: context(), message() and
\* debug() answer the fields set at construction, and every rendering of the
\* value is the same text as its first.
ValueImmutableAfterConstruction ==
    /\ err # NoErr =>
         /\ err = made.built
         /\ ret.op = "context" => ret.val = made.built.context
         /\ ret.op = "message" => ret.val = made.built.message
         /\ ret.op = "debug" => ret.val = made.built.debug
    /\ out.rendered => (firstOut.rendered /\ out.text = firstOut.text)

\* a value with a payload was rendered twice, moved, and then answered debug()
RenderedTwiceMovedAndRead ==
    /\ out.rendered
    /\ out.again
    /\ holder = "handler"
    /\ ret.op = "debug"
    /\ made.ctor = "with_debug"

ShownToClientFixedPerShape ==
    \A a \in gshown.seen :
        /\ GenericDecl(gshown.type).shape \in {"user_visible", "user_visible_with_info"}
               => a.val = TRUE
        /\ GenericDecl(gshown.type).shape = "internal" => a.val = FALSE

\* CriticalError has answered on an instance of default() and on an instance
\* of new with a message
CriticalErrorSeenFromDefaultAndNew ==
    /\ gshown.type = "CriticalError"
    /\ \E a \in gshown.seen : a.ctor = "default" /\ ~a.val
    /\ \E a \in gshown.seen : a.ctor = "new" /\ a.filled /\ ~a.val

====
